---- MODULE Spec2Model ----
(***************************************************************************)
(* Model of phyghtmap/hgt/tile.py: the contour level planner of            *)
(* hgtTile.contourLines and the memoized orchestration of                  *)
(* hgtTile.get_contours (functools.cache around the per-level trace loop). *)
(***************************************************************************)
EXTENDS Integers, Sequences, FiniteSets, TLC

(* ------------------------------ bounds -------------------------------- *)

\* tile elevations (minEle, maxEle) of the planner specification
MaxEle == 5
\* |stepCont| of the planner specification
MaxStep == 3
\* |minCont|, |maxCont| overrides of the planner specification
MaxCont == 4

\* tile elevations (minEle, maxEle) of the get_contours specifications
MaxTileEle == 1
\* get_contours calls made on the tile in one behaviour
MaxCalls == 2

(* --------------------------- Python values ---------------------------- *)

\* Optional[int]: None is the empty tuple, an int n is <<n>>
None == <<>>

Some(n) == <<n>>

\* truth value of an Optional[int] operand of `or`: None and 0 are falsy
Truthy(v) == v # None /\ v[1] # 0

\* Python's a % b for b # 0: the result has the sign of the divisor
PyMod(a, b) == IF b > 0 THEN a % b ELSE -((-a) % (-b))

\* mutant: the stop value is included
PyRangeLen_inclusive(a, b, s) ==
    IF s > 0
      THEN (IF b >= a THEN (b - a) \div s + 1 ELSE 0)
      ELSE (IF a >= b THEN (a - b) \div (-s) + 1 ELSE 0)

\* len(range(a, b, s)) for s # 0
PyRangeLen(a, b, s) ==
    IF s > 0
      THEN (IF b > a THEN (b - a + s - 1) \div s ELSE 0)
      ELSE (IF a > b THEN (a - b + (-s) - 1) \div (-s) ELSE 0)

\* mutant: consecutive integers, the step is not applied
PyRange_unit(a, b, s) == [i \in 1..PyRangeLen(a, b, s) |-> a + (i - 1)]

\* list(range(a, b, s)) for s # 0
PyRange(a, b, s) == [i \in 1..PyRangeLen(a, b, s) |-> a + (i - 1) * s]

\* [x for x in seq if x != 0]
RECURSIVE DropZero(_)
DropZero(seq) ==
    IF seq = <<>> THEN <<>>
    ELSE IF Head(seq) = 0 THEN DropZero(Tail(seq))
    ELSE <<Head(seq)>> \o DropZero(Tail(seq))

(* ------------------------- hgtTile.contourLines ----------------------- *)

\* mutant: rounds towards the previous multiple
getContLimit_down(ele, step) == ele - PyMod(ele, step)

\* getContLimit(ele, step), step # 0
getContLimit(ele, step) ==
    IF PyMod(ele, step) = 0 THEN ele
    ELSE ele + step - PyMod(ele, step)

\* `override or getContLimit(ele, step)`; the right operand is evaluated only
\* when the override is falsy, and divides by step
ContBound(override, ele, step) ==
    IF Truthy(override) THEN [err |-> "", v |-> override[1]]
    ELSE IF step = 0 THEN [err |-> "ZeroDivisionError", v |-> 0]
    ELSE [err |-> "", v |-> getContLimit(ele, step)]

\* the level list of lines 119-126
LevelList(min_cont, max_cont, stepCont, noZero) ==
    IF noZero THEN DropZero(PyRange(min_cont, max_cont, stepCont))
    ELSE PyRange(min_cont, max_cont, stepCont)

\* mutant: build_contours is reached before the levels are computed
PlanError_built(e) ==
    [err |-> e, min_cont |-> 0, max_cont |-> 0, levels |-> <<>>, built |-> TRUE]

\* the outcome of a contourLines call that raised e
PlanError(e) ==
    [err |-> e, min_cont |-> 0, max_cont |-> 0, levels |-> <<>>, built |-> FALSE]

\* contourLines on a tile with elevation range (lo, hi): the locals min_cont
\* and max_cont, the levels, and whether build_contours was reached
contourLines(lo, hi, a) ==
    LET mn == ContBound(a.minCont, lo, a.stepCont)
        mx == ContBound(a.maxCont, hi, a.stepCont)
    IN  IF mn.err # "" THEN PlanError(mn.err)
        ELSE IF mx.err # "" THEN PlanError(mx.err)
        ELSE IF a.stepCont = 0 THEN PlanError("ValueError")
        ELSE [err |-> "", min_cont |-> mn.v, max_cont |-> mx.v,
              levels |-> LevelList(mn.v, mx.v, a.stepCont, a.noZero),
              built |-> TRUE]

(* ------------------------ hgtTile.get_contours ------------------------ *)

\* the signature of get_contours: parameter names in positional order
Params == <<"step_cont", "max_nodes_per_way", "no_zero", "min_cont",
            "max_cont", "rdp_epsilon">>

\* the default of step_cont
DefaultStep == 20

\* the defaults of the signature
Defaults == [step_cont |-> DefaultStep, max_nodes_per_way |-> 0,
             no_zero |-> FALSE, min_cont |-> None, max_cont |-> None,
             rdp_epsilon |-> None]

\* the calls get_contours(*args, **kwds) a caller makes: the defaults
\* omitted, passed positionally and passed by keyword; positive, zero and
\* negative steps; a negative node limit; level overrides
CallForms ==
    { [args |-> <<>>, kwds |-> <<>>],
      [args |-> <<DefaultStep>>, kwds |-> <<>>],
      [args |-> <<>>, kwds |-> << <<"step_cont", DefaultStep>>,
                                  <<"max_nodes_per_way", 0>>,
                                  <<"no_zero", FALSE>> >>],
      [args |-> <<1>>, kwds |-> <<>>],
      [args |-> <<1>>, kwds |-> << <<"no_zero", TRUE>> >>],
      [args |-> <<1, -1>>, kwds |-> <<>>],
      [args |-> <<0>>, kwds |-> <<>>],
      [args |-> <<0>>, kwds |-> << <<"min_cont", Some(1)>>,
                                   <<"max_cont", Some(-1)>> >>],
      [args |-> <<-1>>, kwds |-> << <<"min_cont", Some(1)>> >>] }

\* mutant: the key is the parameter tuple after binding the defaults
make_key_normalized(f) ==
    LET bound(i) ==
            IF i <= Len(f.args) THEN f.args[i]
            ELSE IF \E j \in 1..Len(f.kwds) : f.kwds[j][1] = Params[i]
              THEN f.kwds[CHOOSE j \in 1..Len(f.kwds) :
                              f.kwds[j][1] = Params[i]][2]
            ELSE Defaults[Params[i]]
    IN  [args |-> [i \in 1..Len(Params) |-> bound(i)], kwds |-> <<>>]

\* functools._make_key(args, kwds, typed=False): the key is the call as
\* written, positional values then keyword items in call order
make_key(f) == f

\* the value a call binds to the parameter at position i of the signature
BoundValue(f, i) ==
    IF i <= Len(f.args) THEN f.args[i]
    ELSE IF \E j \in 1..Len(f.kwds) : f.kwds[j][1] = Params[i]
      THEN f.kwds[CHOOSE j \in 1..Len(f.kwds) : f.kwds[j][1] = Params[i]][2]
    ELSE Defaults[Params[i]]

\* the parameter tuple of a call after binding defaults, handed to
\* contourLines positionally (lines 178-180)
Bind(f) ==
    [stepCont |-> BoundValue(f, 1), maxNodesPerWay |-> BoundValue(f, 2),
     noZero |-> BoundValue(f, 3), minCont |-> BoundValue(f, 4),
     maxCont |-> BoundValue(f, 5), rdpEpsilon |-> BoundValue(f, 6)]

\* contour_data.trace(elev) on success: the polylines of the level, each
\* given by its number of points, with the node and way counts
trace(elev) ==
    LET polylines == IF elev = 0 THEN <<>>
                     ELSE IF elev % 2 = 0 THEN <<5>>
                     ELSE <<3, 4>>
    IN  [polylines |-> polylines,
         nb_nodes |-> (IF elev = 0 THEN 0 ELSE IF elev % 2 = 0 THEN 5 ELSE 7),
         nb_ways |-> Len(polylines)]

\* contours_per_elev[elev] = polylines on an insertion-ordered dict
DictSet(d, k, v) ==
    IF \E i \in 1..Len(d) : d[i][1] = k
      THEN [i \in 1..Len(d) |-> IF d[i][1] = k THEN <<k, v>> ELSE d[i]]
      ELSE Append(d, <<k, v>>)

\* mutant: the way count is accumulated into both totals
LoopBody_swapped(w) ==
    LET elev == w.elevations[w.i]
        r == trace(elev)
    IN  [w EXCEPT !.contours_per_elev = DictSet(@, elev, r.polylines),
                  !.total_nodes = @ + r.nb_ways,
                  !.total_ways = @ + r.nb_ways,
                  !.traced = Append(@, elev),
                  !.i = @ + 1]

\* the body of the for loop, lines 184-186
LoopBody(w) ==
    LET elev == w.elevations[w.i]
        r == trace(elev)
    IN  [w EXCEPT !.contours_per_elev = DictSet(@, elev, r.polylines),
                  !.total_nodes = @ + r.nb_nodes,
                  !.total_ways = @ + r.nb_ways,
                  !.traced = Append(@, elev),
                  !.i = @ + 1]

\* TileContours(total_nodes, total_ways, contours_per_elev), line 188
TileContours(w) ==
    [nb_nodes |-> w.total_nodes, nb_ways |-> w.total_ways,
     contours |-> w.contours_per_elev]

NoResult == [nb_nodes |-> 0, nb_ways |-> 0, contours |-> <<>>]

NoWork == [elevations |-> <<>>, i |-> 1, contours_per_elev |-> <<>>,
           total_nodes |-> 0, total_ways |-> 0, traced |-> <<>>,
           built |-> FALSE]

(* ------------------------------- state -------------------------------- *)

\* the callers of get_contours on the tile
Callers == {"c1", "c2"}

VARIABLES
    minEle, maxEle,     \* the tile's elevation range
    planCall, planOut,  \* a direct contourLines call and its outcome
    cache,              \* the dict of functools.cache: key -> TileContours
    pc, call, work,     \* per caller: position, call in progress, locals
    history,            \* the calls that returned or raised, in order
    contourLinesCalls   \* the argument tuples contourLines was invoked with

vars == <<minEle, maxEle, planCall, planOut, cache, pc, call, work, history,
          contourLinesCalls>>

tileVars == <<minEle, maxEle, planCall, planOut>>

OptCont == {None} \cup {Some(n) : n \in -MaxCont..MaxCont}

PlanArgs ==
    [made : {FALSE}, stepCont : -MaxStep..MaxStep, maxNodesPerWay : {0},
     noZero : BOOLEAN, minCont : OptCont, maxCont : OptCont,
     rdpEpsilon : {None}]

NoCall == [made |-> TRUE, stepCont |-> 1, maxNodesPerWay |-> 0,
           noZero |-> FALSE, minCont |-> None, maxCont |-> None,
           rdpEpsilon |-> None]

NoForm == [args |-> <<>>, kwds |-> <<>>]

\* hgtTile.__init__: minEle, maxEle = getElevRange()
TileInit(bound) ==
    /\ minEle \in -bound..bound
    /\ maxEle \in -bound..bound
    /\ minEle <= maxEle

\* a fresh tile: nothing cached, no caller inside get_contours
CacheInit ==
    /\ cache = <<>>
    /\ pc = [c \in Callers |-> "idle"]
    /\ call = [c \in Callers |-> NoForm]
    /\ work = [c \in Callers |-> NoWork]
    /\ history = <<>>
    /\ contourLinesCalls = <<>>

(* ---- direct calls of contourLines ---- *)

\* the tile and the arguments of one direct call tile.contourLines(...)
PlanInit ==
    /\ TileInit(MaxEle)
    /\ planCall \in PlanArgs
    /\ planOut = PlanError("")
    /\ CacheInit

\* the direct call tile.contourLines(...) with the drawn arguments
ContourLinesCall ==
    /\ ~planCall.made
    /\ planCall' = [planCall EXCEPT !.made = TRUE]
    /\ planOut' = contourLines(minEle, maxEle, planCall)
    /\ UNCHANGED <<minEle, maxEle, cache, pc, call, work, history,
                   contourLinesCalls>>

PlanNext == ContourLinesCall

PlanSpec == PlanInit /\ [][PlanNext]_vars

(* ---- get_contours behind functools.cache ---- *)

Init ==
    /\ TileInit(MaxTileEle)
    /\ planCall = NoCall
    /\ planOut = PlanError("")
    /\ CacheInit

Returned(c, f, kind, value, hit, w) ==
    [caller |-> c, form |-> f, kind |-> kind, value |-> value, hit |-> hit,
     built |-> w.built, traced |-> w.traced]

\* mutant: the result is returned without being stored
CacheStore_dropped(d, key, result) == d

\* the dict of the wrapper after cache[key] = result
CacheStore(d, key, result) ==
    [k \in DOMAIN d \cup {key} |-> IF k = key THEN result ELSE d[k]]

\* the cache wrapper finds the key: the stored result is returned
CacheHit(c) ==
    \E f \in CallForms :
        /\ pc[c] = "idle"
        /\ Len(history) + Cardinality({d \in Callers : pc[d] # "idle"}) < MaxCalls
        /\ make_key(f) \in DOMAIN cache
        /\ history' = Append(history,
               Returned(c, f, "value", cache[make_key(f)], TRUE, NoWork))
        /\ UNCHANGED <<tileVars, cache, pc, call, work, contourLinesCalls>>

\* mutant: the wrapper enters get_contours without consulting the dict
CacheMiss_unchecked(c) ==
    \E f \in CallForms :
        /\ pc[c] = "idle"
        /\ Len(history) + Cardinality({d \in Callers : pc[d] # "idle"}) < MaxCalls
        /\ pc' = [pc EXCEPT ![c] = "contourLines"]
        /\ call' = [call EXCEPT ![c] = f]
        /\ work' = [work EXCEPT ![c] = NoWork]
        /\ UNCHANGED <<tileVars, cache, history, contourLinesCalls>>

\* the cache wrapper misses: the decorated get_contours is entered
CacheMiss(c) ==
    \E f \in CallForms :
        /\ pc[c] = "idle"
        /\ Len(history) + Cardinality({d \in Callers : pc[d] # "idle"}) < MaxCalls
        /\ make_key(f) \notin DOMAIN cache
        /\ pc' = [pc EXCEPT ![c] = "contourLines"]
        /\ call' = [call EXCEPT ![c] = f]
        /\ work' = [work EXCEPT ![c] = NoWork]
        /\ UNCHANGED <<tileVars, cache, history, contourLinesCalls>>

\* lines 178-182: contourLines is called; it returns the levels and the
\* tracer, or raises and the exception leaves get_contours and the wrapper
CallContourLines(c) ==
    /\ pc[c] = "contourLines"
    /\ contourLinesCalls' = Append(contourLinesCalls, Bind(call[c]))
    /\ LET plan == contourLines(minEle, maxEle, Bind(call[c]))
       IN  IF plan.err # ""
             THEN /\ pc' = [pc EXCEPT ![c] = "idle"]
                  /\ history' = Append(history,
                         Returned(c, call[c], plan.err, NoResult, FALSE,
                                  [NoWork EXCEPT !.built = plan.built]))
                  /\ work' = [work EXCEPT ![c] = NoWork]
             ELSE /\ pc' = [pc EXCEPT ![c] = "loop"]
                  /\ work' = [work EXCEPT ![c] =
                         [NoWork EXCEPT !.elevations = plan.levels,
                                        !.built = plan.built]]
                  /\ UNCHANGED history
    /\ UNCHANGED <<tileVars, cache, call>>

\* lines 183-186: one iteration of the loop, the tracer returning normally
TraceLevel(c) ==
    /\ pc[c] = "loop"
    /\ work[c].i <= Len(work[c].elevations)
    /\ work' = [work EXCEPT ![c] = LoopBody(work[c])]
    /\ UNCHANGED <<tileVars, cache, pc, call, history, contourLinesCalls>>

\* mutant: the exception is caught and the levels traced so far are stored
TraceRaises_partial(c) ==
    /\ pc[c] = "loop"
    /\ work[c].i <= Len(work[c].elevations)
    /\ pc' = [pc EXCEPT ![c] = "idle"]
    /\ cache' = CacheStore(cache, make_key(call[c]), TileContours(work[c]))
    /\ history' = Append(history,
           Returned(c, call[c], "TracingError", NoResult, FALSE,
                    [work[c] EXCEPT !.traced =
                         Append(@, work[c].elevations[work[c].i])]))
    /\ work' = [work EXCEPT ![c] = NoWork]
    /\ UNCHANGED <<tileVars, call, contourLinesCalls>>

\* line 184: the tracer raises; the exception leaves get_contours and the
\* wrapper, which stores nothing
TraceRaises(c) ==
    /\ pc[c] = "loop"
    /\ work[c].i <= Len(work[c].elevations)
    /\ pc' = [pc EXCEPT ![c] = "idle"]
    /\ history' = Append(history,
           Returned(c, call[c], "TracingError", NoResult, FALSE,
                    [work[c] EXCEPT !.traced =
                         Append(@, work[c].elevations[work[c].i])]))
    /\ work' = [work EXCEPT ![c] = NoWork]
    /\ UNCHANGED <<tileVars, cache, call, contourLinesCalls>>

\* lines 188-189 and the wrapper: the result is built, stored under the key
\* and returned
Return(c) ==
    /\ pc[c] = "loop"
    /\ work[c].i > Len(work[c].elevations)
    /\ cache' = CacheStore(cache, make_key(call[c]), TileContours(work[c]))
    /\ pc' = [pc EXCEPT ![c] = "idle"]
    /\ history' = Append(history,
           Returned(c, call[c], "value", TileContours(work[c]), FALSE, work[c]))
    /\ work' = [work EXCEPT ![c] = NoWork]
    /\ UNCHANGED <<tileVars, call, contourLinesCalls>>

\* a caller's next step through the wrapper and get_contours
Run(c) ==
    \/ CacheHit(c)
    \/ CacheMiss(c)
    \/ CallContourLines(c)
    \/ TraceLevel(c)
    \/ TraceRaises(c)
    \/ Return(c)

\* one caller, one call at a time (the tile is used from a single thread)
Next == Run("c1")

Spec == Init /\ [][Next]_vars

\* several callers that may be inside get_contours at the same time
ConcNext == \E c \in Callers : Run(c)

ConcSpec == Init /\ [][ConcNext]_vars

(* ---------------------- reference notions (planner) -------------------- *)

\* integers large enough to hold every bound and level of the planner runs
Universe == -(MaxEle + MaxStep + MaxCont)..(MaxEle + MaxStep + MaxCont)

IsMultiple(m, s) == \E k \in Universe : m = k * s

\* the smallest multiple of s that is >= e, for s > 0
roundUpToStep(e, s) ==
    CHOOSE m \in Universe :
        /\ IsMultiple(m, s)
        /\ m >= e
        /\ \A n \in Universe : (IsMultiple(n, s) /\ n >= e) => m <= n

\* the elements of a finite set of integers in ascending order
RECURSIVE Ascending(_)
Ascending(S) ==
    IF S = {} THEN <<>>
    ELSE LET m == CHOOSE x \in S : \A y \in S : x <= y
         IN  <<m>> \o Ascending(S \ {m})

StrictlyIncreasing(seq) ==
    \A i \in 1..(Len(seq) - 1) : seq[i] < seq[i + 1]

NoOverride == planCall.minCont = None /\ planCall.maxCont = None

(* ------------------------------ claims --------------------------------- *)

\* C1: with neither minLevel nor maxLevel supplied and a positive stepSize,
\* contourLines returns exactly the ascending multiples of stepSize in
\* [roundUpToStep(minElevation), roundUpToStep(maxElevation)), without 0 when
\* excludeZero is set.
C1_LevelsAreMultiplesInHalfOpenInterval ==
    (planCall.made /\ NoOverride /\ planCall.stepCont > 0) =>
        /\ planOut.err = ""
        /\ planOut.levels =
             Ascending({m \in Universe :
                 /\ IsMultiple(m, planCall.stepCont)
                 /\ roundUpToStep(minEle, planCall.stepCont) <= m
                 /\ m < roundUpToStep(maxEle, planCall.stepCont)
                 /\ (planCall.noZero => m # 0)})

C1_Witness ==
    /\ planCall.made /\ NoOverride /\ planCall.noZero
    /\ planCall.stepCont = 2
    /\ minEle = -3 /\ maxEle = 5
    /\ planOut.levels = <<-2, 2, 4>>

\* C4 (as stated): an integer minLevel override, 0 included, is the lower
\* bound and an integer maxLevel override, 0 included, is the exclusive upper
\* bound; the bound rounded from the elevation is used only without override.
C4_OverrideIsTheBound ==
    (planCall.made /\ planCall.stepCont > 0) =>
        /\ planOut.min_cont =
             (IF planCall.minCont # None THEN planCall.minCont[1]
              ELSE getContLimit(minEle, planCall.stepCont))
        /\ planOut.max_cont =
             (IF planCall.maxCont # None THEN planCall.maxCont[1]
              ELSE getContLimit(maxEle, planCall.stepCont))

\* C5 (as stated): for positive stepSize and any overrides the levels are
\* strictly increasing and each one is a multiple of stepSize.
C5_LevelsAreMultiplesOfStep ==
    (planCall.made /\ planCall.stepCont > 0) =>
        /\ StrictlyIncreasing(planOut.levels)
        /\ \A i \in 1..Len(planOut.levels) :
               planOut.levels[i] % planCall.stepCont = 0

\* C5 (amended): for positive stepSize the levels are strictly increasing and
\* each one differs from the lower bound by a multiple of stepSize; they are
\* multiples of stepSize when minLevel is absent or itself such a multiple.
C5_LevelsAreAlignedToLowerBound ==
    (planCall.made /\ planCall.stepCont > 0) =>
        /\ planOut.err = ""
        /\ StrictlyIncreasing(planOut.levels)
        /\ \A i \in 1..Len(planOut.levels) :
               /\ (planOut.levels[i] - planOut.min_cont) % planCall.stepCont = 0
               /\ (planCall.minCont = None
                     \/ planCall.minCont[1] % planCall.stepCont = 0)
                   => planOut.levels[i] % planCall.stepCont = 0

C5_Witness ==
    /\ planCall.made
    /\ planCall.stepCont = 2
    /\ planCall.minCont = Some(1) /\ planCall.maxCont = None
    /\ maxEle = 5
    /\ planOut.levels = <<1, 3, 5>>

\* C10: without overrides and with a positive stepSize every planned level L
\* has minElevation <= L < maxElevation (maxElevation itself is never a
\* level), and a flat tile gives the empty sequence and no error.
C10_LevelsInsideElevationRange ==
    (planCall.made /\ NoOverride /\ planCall.stepCont > 0) =>
        /\ planOut.err = ""
        /\ \A i \in 1..Len(planOut.levels) :
               minEle <= planOut.levels[i] /\ planOut.levels[i] < maxEle
        /\ (minEle = maxEle => planOut.levels = <<>>)

C10_Witness ==
    /\ planCall.made /\ NoOverride /\ ~planCall.noZero
    /\ planCall.stepCont = 2
    /\ minEle = 1 /\ maxEle = 4
    /\ planOut.levels = <<2>>

(* -------------------- reference notions (get_contours) ----------------- *)

Calls == 1..Len(history)

\* the levels contourLines plans for a call on this tile
Planned(f) == contourLines(minEle, maxEle, Bind(f)).levels

Keys(d) == [n \in 1..Len(d) |-> d[n][1]]

RECURSIVE SumNodes(_)
SumNodes(lv) ==
    IF lv = <<>> THEN 0 ELSE trace(Head(lv)).nb_nodes + SumNodes(Tail(lv))

RECURSIVE SumWays(_)
SumWays(lv) ==
    IF lv = <<>> THEN 0 ELSE trace(Head(lv)).nb_ways + SumWays(Tail(lv))

Raised(h) == h.kind # "value"

\* every result is the aggregation of the tracer's answers over lv, in the
\* order of lv
Aggregates(r, lv) ==
    /\ Keys(r.contours) = lv
    /\ \A n \in 1..Len(lv) : r.contours[n][2] = trace(lv[n]).polylines
    /\ r.nb_nodes = SumNodes(lv)
    /\ r.nb_ways = SumWays(lv)
    /\ (lv = <<>> => r = NoResult)

\* C2 (as stated): once a call has computed a result, every later call with
\* an identical parameter tuple (step_cont, max_nodes_per_way, no_zero,
\* min_cont, max_cont, rdp_epsilon) returns that result without invoking
\* contourLines or the tracer again.
C2_OneComputationPerTuple ==
    \A i, j \in Calls :
        (i < j /\ Bind(history[i].form) = Bind(history[j].form)
               /\ history[i].kind = "value") =>
            /\ history[j].hit
            /\ history[j].kind = "value"
            /\ history[j].value = history[i].value
            /\ ~history[j].built
            /\ history[j].traced = <<>>

\* C2 (amended): once a call has returned a result, every later call written
\* with the same positional values and keyword items returns that result
\* without invoking contourLines or the tracer; contourLines has been invoked
\* once for each call that missed the cache, and never for a hit.
C2_ReuseAfterSuccessfulSameCall ==
    /\ \A i, j \in Calls :
           (i < j /\ history[i].form = history[j].form
                  /\ history[i].kind = "value") =>
               /\ history[j].hit
               /\ history[j].kind = "value"
               /\ history[j].value = history[i].value
               /\ ~history[j].built
               /\ history[j].traced = <<>>
    /\ Len(contourLinesCalls) =
           Cardinality({i \in Calls : ~history[i].hit})
             + Cardinality({c \in Callers : pc[c] = "loop"})

C2_Witness ==
    /\ Len(history) = 2
    /\ history[1].form = [args |-> <<1>>, kwds |-> <<>>]
    /\ history[2].form = history[1].form
    /\ ~history[1].hit /\ history[1].kind = "value"
    /\ history[2].hit
    /\ Len(history[1].traced) = 2
    /\ Len(contourLinesCalls) = 1

C6_KeyNormalizedOverDefaults ==
    \A i, j \in Calls :
        (i < j /\ history[i].form # history[j].form
               /\ Bind(history[i].form) = Bind(history[j].form)
               /\ history[i].kind = "value") =>
            history[j].hit /\ ~history[j].built

\* C6 (amended): the key is the call as written: a call is served from the
\* cache exactly when an earlier call with the same positional values and the
\* same keyword items in the same order returned a result; calls that bind
\* the same values in another form each compute and get an entry of their own.
C6_KeyIsTheCallAsWritten ==
    /\ \A j \in Calls :
           history[j].hit <=>
               \E i \in Calls : /\ i < j
                                /\ history[i].form = history[j].form
                                /\ history[i].kind = "value"
    /\ DOMAIN cache = {history[i].form : i \in {n \in Calls :
                                                   history[n].kind = "value"}}

C6_Witness ==
    /\ Len(history) = 2
    /\ history[1].form = [args |-> <<>>, kwds |-> <<>>]
    /\ history[2].form = [args |-> <<DefaultStep>>, kwds |-> <<>>]
    /\ history[1].kind = "value" /\ history[2].kind = "value"
    /\ ~history[2].hit
    /\ history[2].traced = <<0>>
    /\ Cardinality(DOMAIN cache) = 2

\* C7 (as stated): with concurrent callers the computation for one call is
\* in flight at most once; a second caller waits for the first.
C7_AtMostOneComputationInFlight ==
    \A c, d \in Callers :
        (c # d /\ pc[c] # "idle" /\ pc[d] # "idle") => call[c] # call[d]

\* C7 (amended): a caller starts a computation only when no result is stored
\* for its call at the moment it looks it up, and a result served from the
\* cache is one that a completed computation of the same call returned;
\* callers that overlap do not wait and each start their own computation.
C7_NoComputationAfterStore ==
    /\ [](\A j \in Calls :
             history[j].hit =>
                 \E i \in Calls : /\ i < j
                                  /\ ~history[i].hit
                                  /\ history[i].form = history[j].form
                                  /\ history[i].value = history[j].value
                                  /\ history[i].kind = "value")
    /\ [][\A c \in Callers :
             (pc[c] = "idle" /\ pc'[c] # "idle") =>
                 make_key(call'[c]) \notin DOMAIN cache]_vars

C7_Witness ==
    /\ pc["c1"] = "loop" /\ pc["c2"] = "loop"
    /\ call["c1"] = call["c2"]
    /\ work["c1"].traced = <<-1>>
    /\ work["c2"].traced = <<>>

\* C8: when the tracer raises, the caller gets the error and no result, the
\* call leaves no cache entry (the same call made again recomputes from the
\* first level), and the results of earlier successful calls stay cached
\* unchanged.
C8_TracerFailureCachesNothing ==
    /\ \A i \in Calls :
           history[i].kind = "TracingError" =>
               /\ history[i].value = NoResult
               /\ \A j \in Calls :
                      (i < j /\ history[j].form = history[i].form
                             /\ ~\E k \in 1..(j - 1) :
                                    /\ history[k].form = history[i].form
                                    /\ history[k].kind = "value") =>
                          /\ ~history[j].hit
                          /\ history[j].traced # <<>>
                          /\ history[j].traced[1] = Planned(history[j].form)[1]
    /\ (history # <<>> /\ history[Len(history)].kind = "TracingError") =>
           make_key(history[Len(history)].form) \notin DOMAIN cache
    /\ \A i \in Calls :
           history[i].kind = "value" =>
               /\ make_key(history[i].form) \in DOMAIN cache
               /\ cache[make_key(history[i].form)] = history[i].value

C8_Witness ==
    /\ Len(history) = 2
    /\ history[1].form = [args |-> <<>>, kwds |-> <<>>]
    /\ history[1].kind = "value"
    /\ history[2].form = [args |-> <<1>>, kwds |-> <<>>]
    /\ history[2].kind = "TracingError"
    /\ history[2].traced = <<-1, 0>>
    /\ DOMAIN cache = {history[1].form}

Invalid(t) == t.stepCont <= 0 \/ t.maxNodesPerWay < 0

\* C9 (as stated): a call with stepSize <= 0 or maxNodesPerWay < 0 ends in
\* an error before the tracer is constructed or a level traced, and leaves
\* no cache entry.
C9_InvalidParametersRejected ==
    \A i \in Calls :
        Invalid(Bind(history[i].form)) =>
            /\ Raised(history[i])
            /\ ~history[i].built
            /\ history[i].traced = <<>>
            /\ make_key(history[i].form) \notin DOMAIN cache

\* C9 (amended): a call with stepSize = 0 ends in an error (ZeroDivisionError,
\* or ValueError when both level overrides are non-zero) before the tracer is
\* constructed or a level traced, and leaves no cache entry; a negative
\* stepSize or a negative maxNodesPerWay is not rejected: such a call
\* constructs the tracer and traces the levels it plans.
C9_OnlyZeroStepRejected ==
    \A i \in Calls :
        /\ Bind(history[i].form).stepCont = 0 =>
               /\ history[i].kind \in {"ZeroDivisionError", "ValueError"}
               /\ ~history[i].built
               /\ history[i].traced = <<>>
               /\ make_key(history[i].form) \notin DOMAIN cache
        /\ (Bind(history[i].form).stepCont # 0 /\ ~history[i].hit) =>
               /\ history[i].built
               /\ history[i].kind \in {"value", "TracingError"}

C9_Witness ==
    /\ Len(history) = 2
    /\ history[1].form = [args |-> <<0>>, kwds |-> <<>>]
    /\ history[1].kind = "ZeroDivisionError"
    /\ history[2].form = [args |-> <<0>>, kwds |-> << <<"min_cont", Some(1)>>,
                                                      <<"max_cont", Some(-1)>> >>]
    /\ history[2].kind = "ValueError"
    /\ cache = <<>>

====
